---- MODULE Spec2Model ----
(***************************************************************************)
(* Model of the steganography detection tool: the LSB message decoder of   *)
(* src/stegdet/core.py (the refined detector) and src/core.py (the early   *)
(* detector), the bit-plane statistics (compute_entropy, chi_square,      *)
(* analyze_bitplane), the bit-plane view, and the batch scan of            *)
(* src/stegdet/utils/file_utils.py and src/utils.py.                       *)
(*                                                                         *)
(* Representation:                                                         *)
(*  - a Python str is the sequence of its code points;                     *)
(*  - a Python int that may exceed 31 bits (the 32-bit length header) is   *)
(*    a record [hi, lo] of base-65536 limbs, value = hi * 65536 + lo;      *)
(*  - a Python float ratio is an exact rational [num, den], den > 0;       *)
(*  - a float statistic is a fixed-point integer, in units of 1 / Scale;   *)
(*  - an image is [mode, height, width, data], data a sequence of rows,    *)
(*    a row a sequence of pixels, a pixel <<r, g, b>> (mode "RGB") or a    *)
(*    sequence <<v>> of one grey value (mode "L").                         *)
(***************************************************************************)
EXTENDS Integers, Sequences, FiniteSets, TLC

VARIABLES
  fixture,          \* how the input image was built (what was embedded)
  image,            \* the input image handed to the program
  impl,             \* "refined" (src/stegdet) or "early" (src/core.py, src/utils.py)
  channel,          \* the channel argument of LSBDetector / bit_plane_view
  max_bytes,        \* detect_message's max_bytes argument
  printable_ratio,  \* detect_message's printable_ratio argument
  pc,               \* position of the caller
  detector,         \* the LSBDetector object: [pixels, channel_idx]
  outcome,          \* what detect_message did
  view,             \* what bit_plane_view did
  plane,            \* the plane argument of bit_plane_view; analyze_bitplane's
                    \* loop variable
  bit_seq,          \* the bit sequence a statistic is computed on
  stat_value,       \* the float compute_entropy or chi_square returned
  plane_stats,      \* the dictionary analyze_bitplane fills
  files,            \* batch scan: the directory's image files
  file_i,           \* batch scan: index of the file being processed
  chan_i,           \* batch scan: index of the channel being processed
  file_result,      \* batch scan: the record being filled
  results           \* batch scan: the list returned

vars == <<fixture, image, impl, channel, max_bytes, printable_ratio, pc,
          detector, outcome, view, plane, bit_seq, stat_value, plane_stats, files, file_i,
          chan_i, file_result, results>>

--------------------------------------------------------------------------
(* Bounds of the model. *)

\* longest message, in characters, embedded by a round-trip fixture
MaxChars == 5
\* longest raw (not necessarily UTF-8) payload, in bytes
MaxRaw == 2
\* most files in a scanned directory
MaxFiles == 2
\* plane arguments tried past the last plane, 7
ExtraPlanes == 2

--------------------------------------------------------------------------
(* Program constants. *)

DEFAULT_MAX_MESSAGE_BYTES == 1024
HeaderBits == 32
Limb == 256 * 256

Null == [kind |-> "null"]
Channels == <<"red", "green", "blue">>
DEFAULT_CHANNEL == "blue"
DefaultRatio == [num |-> 4, den |-> 5]

--------------------------------------------------------------------------
(* Sequence helpers. *)

RECURSIVE Concat(_)
Concat(ss) == IF ss = <<>> THEN <<>> ELSE Head(ss) \o Concat(Tail(ss))

RECURSIVE SumSeq(_)
SumSeq(s) == IF s = <<>> THEN 0 ELSE Head(s) + SumSeq(Tail(s))

RECURSIVE Pow2(_)
Pow2(k) == IF k <= 0 THEN 1 ELSE 2 * Pow2(k - 1)

--------------------------------------------------------------------------
(* numpy / Python primitives used by the detectors. *)

\* np.packbits: 8 bits per byte, most significant first, the last byte
\* padded with zero bits.
packbits(bits) ==
  LET n == (Len(bits) + 7) \div 8
      bit(i) == IF i <= Len(bits) THEN bits[i] ELSE 0
  IN [j \in 1..n |->
        SumSeq([k \in 1..8 |-> bit(8 * (j - 1) + k) * Pow2(8 - k)])]

\* value * m + a on a two-limb integer
MulAdd(v, m, a) ==
  LET lo2 == v.lo * m + a
  IN [hi |-> v.hi * m + (lo2 \div Limb), lo |-> lo2 % Limb]

RECURSIVE FoldRadix(_, _, _)
FoldRadix(digits, radix, acc) ==
  IF digits = <<>> THEN acc
  ELSE FoldRadix(Tail(digits), radix, MulAdd(acc, radix, Head(digits)))

\* int.from_bytes(bytes, byteorder="big")
from_bytes_big(bytes) == FoldRadix(bytes, 256, [hi |-> 0, lo |-> 0])

\* mutant of bits_to_int: the four bytes read least significant first
bits_to_int_little(bits) ==
  LET b == packbits(bits)
  IN from_bytes_big([i \in 1..Len(b) |-> b[Len(b) + 1 - i]])

\* refined LSBDetector.bits_to_int
bits_to_int(bits) == from_bytes_big(packbits(bits))

\* mutant of early_bits_to_int: the bit string is read right to left
early_bits_to_int_reversed(bits) ==
  FoldRadix([i \in 1..Len(bits) |-> bits[Len(bits) + 1 - i]], 2, [hi |-> 0, lo |-> 0])

\* early LSBDetector.bits_to_int: int(''.join(str(int(b)) for b in bits), 2)
early_bits_to_int(bits) == FoldRadix(bits, 2, [hi |-> 0, lo |-> 0])

\* length <= 0 for a non-negative two-limb integer
IntLeZero(v) == v.hi = 0 /\ v.lo = 0
\* length > m for a small Python int m (|m| < 65536)
IntGreater(v, m) == v.hi > 0 \/ v.lo > m

--------------------------------------------------------------------------
(* bytes.decode('utf-8', errors='ignore'): CPython's decoder.  A lead byte *)
(* with all its continuation bytes yields one code point; otherwise the    *)
(* lead byte and the continuation bytes that were acceptable are dropped   *)
(* and decoding resumes right after them.                                  *)

IsCont(b) == b >= 128 /\ b <= 191

\* continuation bytes a lead byte needs; -1: not a lead byte
NeedCont(b) ==
  CASE b < 128 -> 0
    [] b >= 194 /\ b <= 223 -> 1
    [] b >= 224 /\ b <= 239 -> 2
    [] b >= 240 /\ b <= 244 -> 3
    [] OTHER -> -1

\* whether b2 may follow lead byte b (overlong forms, surrogates and code
\* points past U+10FFFF are refused at the second byte)
SecondOk(b, b2) ==
  CASE b = 224 -> b2 >= 160 /\ b2 <= 191
    [] b = 237 -> b2 >= 128 /\ b2 <= 159
    [] b = 240 -> b2 >= 144 /\ b2 <= 191
    [] b = 244 -> b2 >= 128 /\ b2 <= 143
    [] OTHER -> IsCont(b2)

\* how many of the `need` continuation bytes after position i are acceptable
RECURSIVE ContRun(_, _, _, _)
ContRun(bytes, i, k, need) ==
  IF k >= need \/ i + k + 1 > Len(bytes) THEN k
  ELSE LET b == bytes[i + k + 1]
           ok == IF k = 0 THEN SecondOk(bytes[i], b) ELSE IsCont(b)
       IN IF ok THEN ContRun(bytes, i, k + 1, need) ELSE k

CodePoint(bytes, i, need) ==
  CASE need = 0 -> bytes[i]
    [] need = 1 -> (bytes[i] - 192) * 64 + (bytes[i + 1] - 128)
    [] need = 2 -> (bytes[i] - 224) * 4096 + (bytes[i + 1] - 128) * 64
                     + (bytes[i + 2] - 128)
    [] OTHER -> (bytes[i] - 240) * 262144 + (bytes[i + 1] - 128) * 4096
                     + (bytes[i + 2] - 128) * 64 + (bytes[i + 3] - 128)

RECURSIVE DecodeFrom(_, _)
DecodeFrom(bytes, i) ==
  IF i > Len(bytes) THEN <<>>
  ELSE LET need == NeedCont(bytes[i]) IN
       IF need < 0 THEN DecodeFrom(bytes, i + 1)
       ELSE LET k == ContRun(bytes, i, 0, need) IN
            IF k = need
            THEN <<CodePoint(bytes, i, need)>> \o DecodeFrom(bytes, i + need + 1)
            ELSE DecodeFrom(bytes, i + k + 1)

decode_utf8_ignore(bytes) == DecodeFrom(bytes, 1)

\* sum(32 <= ord(c) <= 126 for c in msg)
printable_count(msg) == Cardinality({i \in 1..Len(msg) : 32 <= msg[i] /\ msg[i] <= 126})

--------------------------------------------------------------------------
(* Images and the LSBDetector object. *)

\* Image.convert('RGB'): an RGB image is copied, a grey one is replicated
\* into the three components
convert_rgb(img) ==
  [r \in 1..img.height |->
     [c \in 1..img.width |->
        LET px == img.data[r][c]
        IN IF img.mode = "L" THEN <<px[1], px[1], px[1]>> ELSE px]]

\* mutant of channel_idx_of: components taken in the order blue, green, red
channel_idx_bgr(ch) ==
  CASE ch = "red" -> 2 [] ch = "green" -> 1 [] ch = "blue" -> 0 [] OTHER -> 0

\* idx_map.get(channel.lower(), 2), as a 0-based component index
channel_idx_of(ch) ==
  CASE ch = "red" -> 0 [] ch = "green" -> 1 [] ch = "blue" -> 2 [] OTHER -> 2

\* LSBDetector.__init__
new_detector(img, ch) ==
  [kind |-> "detector", pixels |-> convert_rgb(img), channel_idx |-> channel_idx_of(ch)]

\* Image.convert('L') of one pixel: ITU-R 601-2 luma, in 16-bit fixed point
luma(px) ==
  ((px[1] * 19595) + (px[2] * 38470) + (px[3] * 7471) + 32768) \div 65536

\* pixels[:, :, channel_idx]
channel_of(pixels, idx) ==
  [r \in 1..Len(pixels) |-> [c \in 1..Len(pixels[r]) |-> pixels[r][c][idx + 1]]]

\* ndarray.flatten(): row-major
flatten(matrix) == Concat(matrix)

\* LSBDetector.extract_lsb: channel & 1
extract_lsb(det) ==
  LET ch == channel_of(det.pixels, det.channel_idx)
  IN [r \in 1..Len(ch) |-> [c \in 1..Len(ch[r]) |-> ch[r][c] % 2]]

--------------------------------------------------------------------------
(* detect_message.  The outcome is [kind, msg, at]: kind "message" (msg is *)
(* the returned str), "none" (None was returned) or "raise" (an exception  *)
(* left the call); at names the step that ended the call.                  *)

NoMessage(at) == [kind |-> "none", msg |-> <<>>, at |-> at]
Message(msg) == [kind |-> "message", msg |-> msg, at |-> "ValidatePrintable"]
Raise(at) == [kind |-> "raise", msg |-> <<>>, at |-> at]

\* bits[:n]: the first n entries, all of them when there are fewer
slice_to(bits, n) == SubSeq(bits, 1, IF Len(bits) < n THEN Len(bits) ELSE n)

\* length = self.bits_to_int(bits[:32])
read_length(im, bits) ==
  IF im = "early" THEN early_bits_to_int(slice_to(bits, HeaderBits))
  ELSE bits_to_int(slice_to(bits, HeaderBits))

\* mutant of header_missing: a channel one bit short of a header is read
header_missing_short(size) == size < HeaderBits - 1

\* if bits.size < 32
header_missing(size) == size < HeaderBits

\* mutant of length_rejected: length < 0 in place of length <= 0
length_rejected_strict(length, mb) == IntGreater(length, mb)

\* if length <= 0 or length > max_bytes
length_rejected(length, mb) == IntLeZero(length) \/ IntGreater(length, mb)

\* mutant of capacity_rejected: <= in place of <
capacity_rejected_inclusive(size, total_bits) == size <= total_bits

\* if bits.size < total_bits
capacity_rejected(size, total_bits) == size < total_bits

\* mutant of ratio_rejected: <= in place of <
ratio_rejected_inclusive(printable, n, ratio) ==
  printable * ratio.den <= ratio.num * n

\* if printable / len(msg) < printable_ratio
ratio_rejected(printable, n, ratio) == printable * ratio.den < ratio.num * n

\* the refined detector's "if not msg: return None"; the early detector
\* has no such line and divides by len(msg)
empty_outcome(im) ==
  IF im = "early" THEN Raise("ValidatePrintable") ELSE NoMessage("Decode")

\* the tail of detect_message, from the payload bytes on
decode_payload(im, byte_arr, ratio) ==
  LET msg == decode_utf8_ignore(byte_arr)
  IN IF msg = <<>> THEN empty_outcome(im)
     ELSE IF ratio_rejected(printable_count(msg), Len(msg), ratio)
          THEN NoMessage("ValidatePrintable")
          ELSE Message(msg)

detect_message(im, det, mb, ratio) ==
  LET bits == flatten(extract_lsb(det))
  IN IF header_missing(Len(bits)) THEN NoMessage("Init")
     ELSE LET length == read_length(im, bits)
          IN IF length_rejected(length, mb) THEN NoMessage("ReadLength")
             ELSE LET total_bits == HeaderBits + length.lo * 8
                  IN IF capacity_rejected(Len(bits), total_bits)
                     THEN NoMessage("CheckCapacity")
                     ELSE decode_payload(im,
                            packbits(SubSeq(bits, HeaderBits + 1, total_bits)), ratio)

--------------------------------------------------------------------------
(* The statistics.  A float statistic is a fixed-point number: the integer *)
(* x stands for x / Scale, rounded down.                                   *)

Scale == 32 * 32
\* fractional bits of Scale, and of the mantissa log2 is computed on
ScaleBits == 2 * 5
MantBits == 2 * 7

\* floor(log2(m)) for m >= 1
RECURSIVE ilog2(_)
ilog2(m) == IF m < 2 THEN 0 ELSE 1 + ilog2(m \div 2)

\* the first j fractional bits of log2(x / 2^MantBits), 1 <= x / 2^MantBits < 2
RECURSIVE frac_log2(_, _)
frac_log2(x, j) ==
  IF j = 0 THEN 0
  ELSE LET y == (x * x) \div Pow2(MantBits)
       IN IF y >= 2 * Pow2(MantBits)
          THEN Pow2(j - 1) + frac_log2(y \div 2, j - 1)
          ELSE frac_log2(y, j - 1)

\* np.log2(m) for an integer m >= 1, in units of 1 / Scale
log2_fx(m) ==
  LET e == ilog2(m)
  IN e * Scale + frac_log2((m * Pow2(MantBits)) \div Pow2(e), ScaleBits)

CountOf(bits, b) == Cardinality({i \in 1..Len(bits) : bits[i] = b})

\* mutant of compute_entropy: the counts are not normalised to probabilities
compute_entropy_counts(bits) ==
  LET total == Len(bits)
      term(cnt) == IF cnt > 0 THEN cnt * (log2_fx(total) - log2_fx(cnt)) ELSE 0
  IN IF total = 0 THEN 0
     ELSE term(CountOf(bits, 0)) + term(CountOf(bits, 1))

\* LSBDetector.compute_entropy: -sum(p * log2(p)) over the symbols with
\* p > 0, p = count / total, log2(p) = log2(count) - log2(total)
compute_entropy(bits) ==
  LET total == Len(bits)
      term(cnt) == IF cnt > 0 THEN cnt * (log2_fx(total) - log2_fx(cnt)) ELSE 0
  IN IF total = 0 THEN 0
     ELSE (term(CountOf(bits, 0)) + term(CountOf(bits, 1))) \div total

\* early LSBDetector.compute_entropy: p1 = bits.sum() / total, p0 = 1 - p1,
\* then the same sum over the p > 0
early_compute_entropy(bits) ==
  LET total == Len(bits)
      ones == SumSeq(bits)
      term(cnt) == IF cnt > 0 THEN cnt * (log2_fx(total) - log2_fx(cnt)) ELSE 0
  IN IF total = 0 THEN 0
     ELSE (term(total - ones) + term(ones)) \div total

\* mutant of chi_square: the term of the ones is left out
chi_square_zeros(bits) ==
  LET total == Len(bits)
      term(obs) == (((2 * obs) - total) * ((2 * obs) - total) * Scale) \div (2 * total)
  IN IF total = 0 THEN 0
     ELSE term(CountOf(bits, 0))

\* LSBDetector.chi_square: (obs0 - exp)^2 / exp + (obs1 - exp)^2 / exp with
\* exp = total / 2, each term computed on the doubled counts
chi_square(bits) ==
  LET total == Len(bits)
      term(obs) == (((2 * obs) - total) * ((2 * obs) - total) * Scale) \div (2 * total)
  IN IF total = 0 THEN 0
     ELSE term(CountOf(bits, 0)) + term(CountOf(bits, 1))

\* early LSBDetector.chi_square: the same code as the refined one
early_chi_square(bits) == chi_square(bits)

\* the entry analyze_bitplane stores for one plane
PlaneStats(bits) == [entropy |-> compute_entropy(bits), chi2 |-> chi_square(bits)]
EarlyPlaneStats(bits) ==
  [entropy |-> early_compute_entropy(bits), chi2 |-> early_chi_square(bits)]

\* refined analyze_bitplane, the loop body's bits:
\* ((channel_data >> plane) & 1).astype(np.uint8).flatten()
plane_bits(det, k) ==
  LET channel_data == flatten(channel_of(det.pixels, det.channel_idx))
  IN [i \in 1..Len(channel_data) |-> (channel_data[i] \div Pow2(k)) % 2]

\* early analyze_bitplane, the loop body's bits:
\* ((gray & mask) > 0).astype(np.uint8).flatten(), gray the grey image
early_plane_bits(det, k) ==
  LET gray == flatten([r \in 1..Len(det.pixels) |->
                 [c \in 1..Len(det.pixels[r]) |-> luma(det.pixels[r][c])]])
  IN [i \in 1..Len(gray) |-> IF (gray[i] \div Pow2(k)) % 2 > 0 THEN 1 ELSE 0]

\* refined LSBDetector.analyze_bitplane: planes 0..7 of the selected channel
analyze_bitplane(det) == [k \in 0..7 |-> PlaneStats(plane_bits(det, k))]

\* early LSBDetector.analyze_bitplane: planes 0..7 of the grey image
early_analyze_bitplane(det) ==
  [k \in 0..7 |-> EarlyPlaneStats(early_plane_bits(det, k))]

RECURSIVE MaxOf(_)
MaxOf(S) == LET x == CHOOSE y \in S : TRUE
            IN IF S = {x} THEN x
               ELSE LET m == MaxOf(S \ {x}) IN IF x > m THEN x ELSE m

\* mutant of entropy_avg_of: the sum is not divided by the number of planes
entropy_sum_of(stats) == SumSeq([k \in 1..8 |-> stats[k - 1].entropy])

\* sum(s["entropy"] for s in stats.values()) / 8
entropy_avg_of(stats) == SumSeq([k \in 1..8 |-> stats[k - 1].entropy]) \div 8
\* max(s["chi2"] for s in stats.values())
chi2_max_of(stats) == MaxOf({stats[k].chi2 : k \in 0..7})

--------------------------------------------------------------------------
(* bit_plane_view.  The outcome is [kind, img]: kind "image" (img is the   *)
(* image returned) or "raise".  Where the result depends on the NumPy      *)
(* release installed (a Python int that does not fit uint8 is an           *)
(* OverflowError from NumPy 2 on and widens the array before), the         *)
(* operator yields every outcome a release produces.                       *)

ViewImage(mode, matrix) ==
  [kind |-> "image",
   img |-> [mode |-> mode, height |-> Len(matrix),
            width |-> IF matrix = <<>> THEN 0 ELSE Len(matrix[1]),
            data |-> [r \in 1..Len(matrix) |->
                        [c \in 1..Len(matrix[r]) |-> <<matrix[r][c]>>]]]]
ViewRaise == [kind |-> "raise", img |-> Null]

\* an array of the same shape, all zero
ZerosLike(matrix) ==
  [r \in 1..Len(matrix) |-> [c \in 1..Len(matrix[r]) |-> 0]]

\* np.array(image.convert('L'))
convert_l(img) ==
  [r \in 1..img.height |->
     [c \in 1..img.width |->
        LET px == img.data[r][c]
        IN IF img.mode = "L" THEN px[1] ELSE luma(px)]]

\* uint8 >> k for 0 <= k <= 255: a shift by the width or more gives 0
rshift_u8(v, k) == IF k >= 8 THEN 0 ELSE v \div Pow2(k)

\* ((channel_data >> plane) & 1) * 255, as uint8
plane_value(v, k) == (((rshift_u8(v, k)) % 2) * 255) % 256

\* refined bit_plane_view(image, plane, channel)
bit_plane_view(img, k, ch) ==
  LET channel_data == channel_of(convert_rgb(img), channel_idx_of(ch))
      plane_data == [r \in 1..Len(channel_data) |->
                       [c \in 1..Len(channel_data[r]) |->
                          plane_value(channel_data[r][c], k)]]
  IN IF k < 0
     THEN {ViewRaise, ViewImage("L", ZerosLike(channel_data))}
     ELSE {ViewImage("L", plane_data)}

\* (arr & mask) * 255 with mask = 1 << plane <= 128, as uint8
early_plane_value(v, k) == ((((v \div Pow2(k)) % 2) * Pow2(k)) * 255) % 256

\* early bit_plane_view(image, plane)
early_bit_plane_view(img, k) ==
  LET arr == convert_l(img)
      plane_data == [r \in 1..Len(arr) |->
                       [c \in 1..Len(arr[r]) |-> early_plane_value(arr[r][c], k)]]
  IN IF k < 0 THEN {ViewRaise}
     ELSE IF k >= 8
          THEN {ViewRaise, ViewImage("I;16", ZerosLike(arr))}
          ELSE {ViewImage("L", plane_data)}

--------------------------------------------------------------------------
(* scan_directory.  A file is [name, ext, fail_at, megapixels, image]:     *)
(* fail_at is "none", "open" (Image.open raises: not an image), or the     *)
(* channel whose analysis raises (pixel data that cannot be loaded fails   *)
(* at the first channel, "red"; a later channel fails for lack of memory). *)

ALLOWED_EXTENSIONS == <<".png", ".bmp">>
MAX_IMAGE_SIZE_MP == 20

\* is_valid_image(file)
is_valid_image(f) ==
  /\ \E i \in 1..Len(ALLOWED_EXTENSIONS) : f.ext = ALLOWED_EXTENSIONS[i]
  /\ f.fail_at # "open"
  /\ ~(f.megapixels > MAX_IMAGE_SIZE_MP)

\* the file_result dictionary a file starts with
new_file_result(f) ==
  [file |-> f.name, message_found |-> FALSE, message |-> <<>>,
   channel_with_message |-> ""]

\* detector.detect_message() or ""
message_or_empty(out) == IF out.kind = "message" THEN out.msg ELSE <<>>

\* mutant of record_message: a later channel's message replaces an earlier one
record_message_overwrite(fr, msg, ch) ==
  IF msg # <<>>
  THEN [fr EXCEPT !.message_found = TRUE, !.message = msg,
                  !.channel_with_message = ch]
  ELSE fr

\* mutant of record_message: the message is stored but the flag is not set
record_message_unflagged(fr, msg, ch) ==
  IF msg # <<>> /\ ~fr.message_found
  THEN [fr EXCEPT !.message = msg, !.channel_with_message = ch]
  ELSE fr

\* if msg and not file_result["message_found"]: ...
record_message(fr, msg, ch) ==
  IF msg # <<>> /\ ~fr.message_found
  THEN [fr EXCEPT !.message_found = TRUE, !.message = msg,
                  !.channel_with_message = ch]
  ELSE fr

\* file_result[f"{channel}_entropy_avg"], file_result[f"{channel}_chi2_max"]
record_channel_stats(fr, ch, stats) ==
  ((ch \o "_entropy_avg") :> entropy_avg_of(stats))
    @@ ((ch \o "_chi2_max") :> chi2_max_of(stats)) @@ fr

\* mutant of record_overall: the overall statistics are the last channel's
record_overall_blue(fr) ==
  [entropy_avg |-> fr.blue_entropy_avg, chi2_max |-> fr.blue_chi2_max] @@ fr

\* the overall statistics of a file whose three channels are recorded
record_overall(fr) ==
  [entropy_avg |-> (fr.red_entropy_avg + fr.green_entropy_avg
                      + fr.blue_entropy_avg) \div 3,
   chi2_max |-> MaxOf({fr.red_chi2_max, fr.green_chi2_max, fr.blue_chi2_max})]
    @@ fr

\* one iteration of the channel loop on a loaded image
analyze_channel(fr, img, ch) ==
  LET det == new_detector(img, ch)
      msg == message_or_empty(detect_message("refined", det,
                 DEFAULT_MAX_MESSAGE_BYTES, DefaultRatio))
  IN record_channel_stats(record_message(fr, msg, ch), ch, analyze_bitplane(det))

\* mutant of after_exception: the batch is abandoned at the failing file
after_exception_abort(i, n) == n + 1

\* except Exception: continue -- the index of the file the loop goes on with
after_exception(i, n) == i + 1

\* mutant of results_after_exception: the record being filled is appended
results_with_partial(res, fr) == Append(res, fr)

\* except Exception as e: ... continue -- the results list after a channel's
\* analysis raised while the record fr was being filled
results_after_exception(res, fr) == res

\* the body of the early scan_directory's try block; Null when it raises
early_scan_file(f) ==
  IF f.fail_at # "none" THEN Null
  ELSE LET det == new_detector(f.image, DEFAULT_CHANNEL)
           out == detect_message("early", det, DEFAULT_MAX_MESSAGE_BYTES, DefaultRatio)
           stats == early_analyze_bitplane(det)
       IN IF out.kind = "raise" THEN Null
          ELSE [file |-> f.name, message |-> message_or_empty(out),
                entropy_avg |-> entropy_avg_of(stats),
                chi2_max |-> chi2_max_of(stats)]

--------------------------------------------------------------------------
(* Fixtures: the images the program is run on.  A fixture writes a 32-bit  *)
(* big-endian header and payload bytes, most significant bit first, into   *)
(* the least significant bits of one channel of a cover image, pixel by    *)
(* pixel in row-major order; bits that do not fit are dropped.             *)

Impls == {"refined", "early"}

\* characters of embedded messages: 'A', '\n', U+00E9
MsgChars == {65, 10, 233}
\* raw payload bytes: 'A', '\n', a lone continuation byte, and the two
\* bytes of U+00E9
RawBytes == {65, 10, 128, 195, 169}
Covers == {"odd", "even", "ramp"}

Int32(hi, lo) == [hi |-> hi, lo |-> lo]
\* 0, 1, 2, 1025, 65536, 4294967295
HeaderValues == {Int32(0, 0), Int32(0, 1), Int32(0, 2), Int32(0, 1025),
                 Int32(1, 0), Int32(65535, 65535)}

SeqsUpTo(S, n) == UNION {[1..k -> S] : k \in 0..n}

BitsOf(x, width) == [k \in 1..width |-> (x \div Pow2(width - k)) % 2]
HeaderOf(v) == BitsOf(v.hi, 16) \o BitsOf(v.lo, 16)
BytesToBits(bytes) == Concat([i \in 1..Len(bytes) |-> BitsOf(bytes[i], 8)])

\* str.encode('utf-8') of one code point
EncodeChar(cp) ==
  CASE cp < 128 -> <<cp>>
    [] cp >= 128 /\ cp < 2048 -> <<192 + (cp \div 64), 128 + (cp % 64)>>
    [] cp >= 2048 /\ cp < 65536 ->
         <<224 + (cp \div 4096), 128 + ((cp \div 64) % 64), 128 + (cp % 64)>>
    [] OTHER -> <<240 + (cp \div 262144), 128 + ((cp \div 4096) % 64),
                  128 + ((cp \div 64) % 64), 128 + (cp % 64)>>
Utf8Encode(msg) == Concat([i \in 1..Len(msg) |-> EncodeChar(msg[i])])

\* the squarest height x width with height * width = n
ShapeOf(n) ==
  IF n = 0 THEN <<0, 0>>
  ELSE LET h == CHOOSE d \in 1..n :
                  /\ n % d = 0 /\ d * d <= n
                  /\ \A e \in 1..n : (n % e = 0 /\ e * e <= n) => e <= d
       IN <<h, n \div h>>

\* the cover's value of component c of pixel p (both 0-based)
CoverValue(cover, p, c) ==
  CASE cover = "odd" -> 255
    [] cover = "even" -> 254
    [] OTHER -> ((7 * p) + (3 * c) + 16) % 256

\* a cover value with its least significant bit replaced
Embed(v, bit) == v - (v % 2) + bit

\* fx = [msg, hdr, payload, n, cover, embed, mode]
BuildImage(fx) ==
  LET shape == ShapeOf(fx.n)
      bits == HeaderOf(fx.hdr) \o BytesToBits(fx.payload)
      val(p, c) ==
        IF c = fx.embed /\ p < Len(bits)
        THEN Embed(CoverValue(fx.cover, p, c), bits[p + 1])
        ELSE CoverValue(fx.cover, p, c)
  IN [mode |-> fx.mode, height |-> shape[1], width |-> shape[2],
      data |-> [r \in 1..shape[1] |-> [c \in 1..shape[2] |->
                 LET p == (r - 1) * shape[2] + (c - 1)
                 IN IF fx.mode = "L" THEN <<val(p, fx.embed)>>
                    ELSE <<val(p, 0), val(p, 1), val(p, 2)>>]]]

Needed(payload) == HeaderBits + 8 * Len(payload)

MessageFixture(msg, n, cover, embed, mode) ==
  [msg |-> msg, hdr |-> Int32(0, Len(Utf8Encode(msg))), payload |-> Utf8Encode(msg),
   n |-> n, cover |-> cover, embed |-> embed, mode |-> mode]

RawFixture(hdr, payload, n) ==
  [msg |-> <<>>, hdr |-> hdr, payload |-> payload, n |-> n,
   cover |-> "odd", embed |-> 2, mode |-> "RGB"]

Case(fx, ch, mb, ratio) ==
  [fx |-> fx, channel |-> ch, max_bytes |-> mb, printable_ratio |-> ratio]

\* image sizes relative to the bits a fixture writes: one pixel short,
\* exactly enough, one pixel more
Sizes(payload) == {Needed(payload) + d : d \in {-1, 0, 1}}

\* a message of up to MaxChars characters in the blue channel, read back
\* from the blue channel with the default and with a small max_bytes
RoundTripCases ==
  UNION {{Case(MessageFixture(m, n, "odd", 2, "RGB"), "blue", mb, DefaultRatio) :
            n \in Sizes(Utf8Encode(m)), mb \in {DEFAULT_MAX_MESSAGE_BYTES, 3}} :
         m \in SeqsUpTo(MsgChars, MaxChars) \ {<<>>}}

\* one-character messages ('A', U+20AC) in any channel of any cover, in a
\* 4x4 image and in one that holds them, read back from any channel
ChannelCases ==
  {Case(MessageFixture(m, n, cover, e, mode), ch,
        DEFAULT_MAX_MESSAGE_BYTES, DefaultRatio) :
     m \in {<<65>>, <<8364>>}, n \in {16, 40, 56}, cover \in Covers,
     e \in 0..2, mode \in {"RGB", "L"}, ch \in {"red", "green", "blue"}}

\* any header in front of any payload bytes, in images too small for a
\* header and around the size written
RawCases ==
  UNION {{Case(RawFixture(h, b, n), "blue", mb, DefaultRatio) :
            h \in HeaderValues, n \in Sizes(b) \cup {0, 31},
            mb \in {DEFAULT_MAX_MESSAGE_BYTES, 1}} :
         b \in SeqsUpTo(RawBytes, MaxRaw)}

Configs ==
  {<<DEFAULT_MAX_MESSAGE_BYTES, DefaultRatio>>,
   <<0, DefaultRatio>>, <<-1, DefaultRatio>>,
   <<DEFAULT_MAX_MESSAGE_BYTES, [num |-> 1, den |-> 2]>>,
   <<DEFAULT_MAX_MESSAGE_BYTES, [num |-> 1, den |-> 1]>>,
   <<DEFAULT_MAX_MESSAGE_BYTES, [num |-> 0, den |-> 1]>>,
   <<DEFAULT_MAX_MESSAGE_BYTES, [num |-> 3, den |-> 2]>>,
   <<DEFAULT_MAX_MESSAGE_BYTES, [num |-> -1, den |-> 2]>>}

\* payload bytes behind their true length, under any configuration
ConfigCases ==
  UNION {{Case(RawFixture(Int32(0, Len(b)), b, n), "blue", cfg[1], cfg[2]) :
            n \in Sizes(b), cfg \in Configs} :
         b \in SeqsUpTo(RawBytes, MaxRaw)}

Cases == RoundTripCases \cup ChannelCases \cup RawCases \cup ConfigCases

--------------------------------------------------------------------------
(* Specification Spec: one detector on one image.                          *)

Init ==
  /\ \E c \in Cases :
       /\ fixture = c.fx
       /\ image = BuildImage(c.fx)
       /\ channel = c.channel
       /\ max_bytes = c.max_bytes
       /\ printable_ratio = c.printable_ratio
  /\ impl \in Impls
  /\ pc = "new"
  /\ detector = Null
  /\ outcome = Null
  /\ view = Null
  /\ plane = 0
  /\ bit_seq = <<>>
  /\ stat_value = 0
  /\ plane_stats = <<>>
  /\ files = <<>>
  /\ file_i = 0
  /\ chan_i = 0
  /\ file_result = Null
  /\ results = <<>>

\* detector = LSBDetector(image, channel)
Construct ==
  /\ pc = "new"
  /\ detector' = new_detector(image, channel)
  /\ pc' = "ready"
  /\ UNCHANGED <<fixture, image, impl, channel, max_bytes, printable_ratio,
                 outcome, view, plane, bit_seq, stat_value, plane_stats, files, file_i, chan_i,
                 file_result, results>>

\* detector.detect_message(max_bytes, printable_ratio)
DetectMessage ==
  /\ pc = "ready"
  /\ outcome' = detect_message(impl, detector, max_bytes, printable_ratio)
  /\ pc' = "done"
  /\ UNCHANGED <<fixture, image, impl, channel, max_bytes, printable_ratio,
                 detector, view, plane, bit_seq, stat_value, plane_stats, files, file_i, chan_i,
                 file_result, results>>

Next == Construct \/ DetectMessage

Spec == Init /\ [][Next]_vars

--------------------------------------------------------------------------
(* Properties of detect_message, checked under Spec.                       *)

Done == pc = "done"
\* the detector reads the channel the fixture wrote to
ReadsEmbedded ==
  fixture.mode = "L" \/ (channel = Channels[fixture.embed + 1])
\* the header the fixture wrote is the payload's length in bytes
TrueLength == fixture.hdr = Int32(0, Len(fixture.payload))
NumPrintable(msg) == Cardinality({i \in 1..Len(msg) : msg[i] \in 32..126})
AtLeast(msg, ratio) == NumPrintable(msg) * ratio.den >= ratio.num * Len(msg)

\* C1: a message of 1 <= L <= max_bytes UTF-8 bytes, at least 80% of its
\* characters printable ASCII, written as a 32-bit big-endian length and the
\* payload bits into the LSBs of a channel of at least 32 + 8L pixels, is
\* returned unchanged by detect_message on that channel.
RoundTrip ==
  (/\ Done /\ ReadsEmbedded /\ TrueLength
   /\ fixture.msg # <<>>
   /\ fixture.payload = Utf8Encode(fixture.msg)
   /\ Len(fixture.payload) <= max_bytes
   /\ AtLeast(fixture.msg, DefaultRatio)
   /\ printable_ratio = DefaultRatio
   /\ fixture.n >= Needed(fixture.payload))
  => outcome = Message(fixture.msg)

\* a five-character message with a two-byte character, exactly 80%
\* printable, in a channel of exactly the pixels needed, was read back
RoundTripWitness ==
  /\ Done /\ impl = "refined"
  /\ fixture.msg = <<65, 65, 233, 65, 65>>
  /\ fixture.n = Needed(fixture.payload)
  /\ outcome.kind = "message"

\* C2: detect_message never raises, whatever the LSBs are: every call ends
\* with a message or with None, in both detectors.
NeverRaises == Done => outcome.kind \in {"message", "none"}

\* C3: with a valid length L and a payload that passes the printable test,
\* a channel of exactly 32 + 8L LSBs decodes to the message and a channel
\* of 32 + 8L - 1 LSBs yields no message.
CapacityGate ==
  LET msg == decode_utf8_ignore(fixture.payload)
  IN (/\ Done /\ ReadsEmbedded /\ TrueLength
      /\ 1 <= Len(fixture.payload) /\ Len(fixture.payload) <= max_bytes
      /\ msg # <<>> /\ AtLeast(msg, printable_ratio))
     => /\ fixture.n = Needed(fixture.payload) => outcome = Message(msg)
        /\ fixture.n = Needed(fixture.payload) - 1 => outcome.kind = "none"

\* a channel one pixel short of a valid two-byte payload was rejected
CapacityGateWitness ==
  /\ Done /\ ReadsEmbedded /\ TrueLength
  /\ fixture.payload = <<65, 65>> /\ fixture.n = Needed(fixture.payload) - 1
  /\ max_bytes = DEFAULT_MAX_MESSAGE_BYTES /\ printable_ratio = DefaultRatio
  /\ outcome = NoMessage("CheckCapacity")

\* C4: when the first 32 LSBs give a length <= 0 or > max_bytes, the call
\* returns no message at the length gate whatever the other bits are; 32
\* one-bits under max_bytes = 1024 are such a length.
LengthGate ==
  (/\ Done /\ ReadsEmbedded /\ fixture.n >= HeaderBits
   /\ \/ fixture.hdr = Int32(0, 0)
      \/ fixture.hdr.hi > 0
      \/ fixture.hdr.lo > max_bytes)
  => outcome = NoMessage("ReadLength")

\* 32 one-bits in front of a payload were rejected under max_bytes = 1024
LengthGateWitness ==
  /\ Done /\ ReadsEmbedded
  /\ fixture.hdr = Int32(65535, 65535) /\ fixture.payload # <<>>
  /\ fixture.n >= Needed(fixture.payload)
  /\ max_bytes = DEFAULT_MAX_MESSAGE_BYTES
  /\ outcome = NoMessage("ReadLength")

\* the blue channel of an RGB fixture carries header 1 and the byte 0x41
CarriesA ==
  /\ fixture.msg = <<65>> /\ fixture.mode = "RGB" /\ fixture.embed = 2
  /\ max_bytes = DEFAULT_MAX_MESSAGE_BYTES /\ printable_ratio = DefaultRatio

\* C5 as stated: a 4x4 image whose blue LSBs carry header 0x00000001 and
\* the bits of 0x41 decodes to "A" from the blue channel.
EndToEnd4x4 ==
  (Done /\ CarriesA /\ image.height = 4 /\ image.width = 4 /\ channel = "blue")
  => outcome = Message(<<65>>)

\* C5 amended: an image of at least 40 pixels whose blue LSBs carry header
\* 0x00000001 and the bits of 0x41 decodes to "A" from blue and to no
\* message from red and green when their LSBs are all ones, all zeros or
\* alternating; a 4x4 image yields no message from any channel.
EndToEnd ==
  (Done /\ CarriesA)
  => /\ (fixture.n >= 40 /\ channel = "blue") => outcome = Message(<<65>>)
     /\ (fixture.n >= 40 /\ channel \in {"red", "green"}) => outcome.kind = "none"
     /\ fixture.n = 16 => outcome = NoMessage("Init")

\* "A" was read from the blue channel of a 5x8 image over the ramp cover
EndToEndWitness ==
  /\ Done /\ CarriesA /\ fixture.cover = "ramp"
  /\ image.height = 5 /\ image.width = 8 /\ channel = "blue"
  /\ outcome = Message(<<65>>)

\* C6: with p printable among the n > 0 decoded characters, the call
\* returns no message when p/n < printable_ratio and the decoded string
\* when p/n >= printable_ratio (equality is accepted).
PrintableGate ==
  LET L == fixture.hdr.lo
      msg == decode_utf8_ignore(SubSeq(fixture.payload, 1, L))
  IN (/\ Done /\ ReadsEmbedded
      /\ fixture.hdr.hi = 0 /\ 1 <= L /\ L <= max_bytes
      /\ L <= Len(fixture.payload) /\ fixture.n >= HeaderBits + 8 * L
      /\ msg # <<>>)
     => IF AtLeast(msg, printable_ratio)
        THEN outcome = Message(msg)
        ELSE outcome = NoMessage("ValidatePrintable")

\* a string whose printable share equals the threshold was accepted
PrintableGateWitness ==
  /\ Done /\ outcome.kind = "message"
  /\ NumPrintable(outcome.msg) < Len(outcome.msg)
  /\ NumPrintable(outcome.msg) * printable_ratio.den
       = printable_ratio.num * Len(outcome.msg)

\* C9: a call with max_bytes <= 0 or printable_ratio outside (0, 1] fails
\* with an error instead of returning a message or None.
ConfigRejected ==
  (/\ Done /\ impl = "refined"
   /\ \/ max_bytes <= 0
      \/ printable_ratio.num <= 0
      \/ printable_ratio.num > printable_ratio.den)
  => outcome.kind = "raise"

\* C19: for every channel with fewer than 32 pixels, detect_message ends
\* with "no message" without reading a length, whatever the bit values are.
InsufficientHeader ==
  (Done /\ image.height * image.width < HeaderBits)
  => outcome = NoMessage("Init")

\* a 31-pixel channel that holds the first 31 bits of a header was read
InsufficientHeaderWitness ==
  /\ Done /\ image.height * image.width = HeaderBits - 1
  /\ fixture.hdr \in {Int32(0, 1), Int32(65535, 65535)}
  /\ Len(fixture.payload) > 0
  /\ outcome = NoMessage("Init")

\* the other implementation of the detector
OtherImpl == IF impl = "early" THEN "refined" ELSE "early"

\* the payload was decoded to the empty string: the one case the two
\* detectors are not compared on
EmptyDecode == outcome.kind = "raise" \/ outcome.at = "Decode"

\* the 32-bit header in front of the detector's LSB sequence
HeaderRead == SubSeq(flatten(extract_lsb(detector)), 1, HeaderBits)

\* C21: the early and the refined detector decode identically: for every
\* channel LSB sequence and every (max_bytes, printable_ratio) for which
\* the decoded payload string is non-empty or a gate before decoding
\* rejects, both detect_message implementations return the same outcome,
\* and both bits_to_int implementations return the same integer for every
\* 32-bit header.
DecodeIdentically ==
  Done =>
    /\ ~EmptyDecode =>
         outcome = detect_message(OtherImpl, detector, max_bytes, printable_ratio)
    /\ image.height * image.width >= HeaderBits =>
         bits_to_int(HeaderRead) = early_bits_to_int(HeaderRead)

\* the early detector returned a message of several characters behind a
\* header the two bits_to_int agree on
DecodeIdenticallyWitness ==
  /\ Done /\ impl = "early"
  /\ outcome.kind = "message" /\ Len(outcome.msg) >= 2
  /\ outcome = detect_message("refined", detector, max_bytes, printable_ratio)
  /\ bits_to_int(HeaderRead) = Int32(0, Len(fixture.payload))

--------------------------------------------------------------------------
(* Specification SpecView: one call of bit_plane_view on one image.        *)

PlaneArgs == (0 - 1)..(7 + ExtraPlanes)

\* one-pixel images of every 8-bit value, a 2x3 image, and grey images
ViewImages ==
  {[mode |-> "RGB", height |-> 1, width |-> 1,
    data |-> <<<< <<v, (v + 85) % 256, 255 - v>> >>>>] : v \in 0..255}
  \cup {BuildImage(MessageFixture(<<65>>, 6, "ramp", 0, mode)) : mode \in {"RGB", "L"}}
  \cup {[mode |-> "L", height |-> 1, width |-> 1, data |-> <<<< <<v>> >>>>] :
          v \in {0, 1, 128, 255}}

InitView ==
  /\ image \in ViewImages
  /\ channel \in {"red", "green", "blue"}
  /\ impl \in Impls
  /\ pc = "view"
  /\ fixture = Null
  /\ max_bytes = DEFAULT_MAX_MESSAGE_BYTES
  /\ printable_ratio = DefaultRatio
  /\ detector = Null
  /\ outcome = Null
  /\ view = Null
  /\ plane = 0
  /\ bit_seq = <<>>
  /\ stat_value = 0
  /\ plane_stats = <<>>
  /\ files = <<>>
  /\ file_i = 0
  /\ chan_i = 0
  /\ file_result = Null
  /\ results = <<>>

\* bit_plane_view(image, plane, channel); the early version takes no channel
BitPlaneView ==
  /\ pc = "view"
  /\ \E k \in PlaneArgs :
       /\ plane' = k
       /\ view' \in (IF impl = "early" THEN early_bit_plane_view(image, k)
                     ELSE bit_plane_view(image, k, channel))
  /\ pc' = "viewed"
  /\ UNCHANGED <<fixture, image, impl, channel, max_bytes, printable_ratio,
                 detector, outcome, bit_seq, stat_value, plane_stats, files, file_i, chan_i,
                 file_result, results>>

NextView == BitPlaneView

SpecView == InitView /\ [][NextView]_vars

\* C10: bit_plane_view called with plane < 0 or plane > 7 fails as a
\* contract violation instead of producing an image.
PlaneRejected ==
  (pc = "viewed" /\ (plane < 0 \/ plane > 7)) => view.kind = "raise"

\* the value bit_plane_view reads at row r, column c of the input image: the
\* selected channel's (refined), the grey conversion's (early)
ViewSource(r, c) ==
  LET px == image.data[r][c]
  IN IF image.mode = "L" THEN px[1]
     ELSE IF impl = "early" THEN luma(px)
     ELSE CASE channel = "red" -> px[1] [] channel = "green" -> px[2]
            [] OTHER -> px[3]

\* C13: for every plane k in 0..7 and every 8-bit pixel value v, the
\* output pixel of bit_plane_view is 255 when bit k of v is set and 0
\* otherwise.
BitPlaneValues ==
  (pc = "viewed" /\ plane \in 0..7) =>
    /\ view.kind = "image"
    /\ view.img.height = image.height /\ view.img.width = image.width
    /\ \A r \in 1..image.height : \A c \in 1..image.width :
         view.img.data[r][c] =
           << IF (ViewSource(r, c) \div Pow2(plane)) % 2 = 1 THEN 255 ELSE 0 >>

--------------------------------------------------------------------------
(* Specification SpecScan: scan_directory on one directory.                *)

\* an RGB image with the bits written into the LSBs of component e
EmbedInto(img, e, bits) ==
  [img EXCEPT !.data =
     [r \in 1..img.height |-> [c \in 1..img.width |->
        LET p == (r - 1) * img.width + (c - 1)
            px == img.data[r][c]
        IN IF p < Len(bits)
           THEN [px EXCEPT ![e + 1] = Embed(px[e + 1], bits[p + 1])]
           ELSE px]]]

File(name, ext, fail_at, mp, img) ==
  [name |-> name, ext |-> ext, fail_at |-> fail_at, megapixels |-> mp, image |-> img]

BlueA == BuildImage(MessageFixture(<<65>>, 40, "ramp", 2, "RGB"))
RedB == BuildImage(MessageFixture(<<66>>, 40, "odd", 0, "RGB"))

\* the files a directory may hold
Catalog ==
  {File("clean.png", ".png", "none", 0, BuildImage(RawFixture(Int32(0, 0), <<>>, 40))),
   File("blue.png", ".png", "none", 0, BlueA),
   File("redblue.png", ".png", "none", 0,
        EmbedInto(BlueA, 0, HeaderOf(Int32(0, 1)) \o BytesToBits(<<66>>))),
   File("bad80.png", ".png", "none", 0, BuildImage(RawFixture(Int32(0, 1), <<128>>, 40))),
   File("corrupt.png", ".png", "open", 0, Null),
   File("late.png", ".png", "blue", 0, RedB),
   File("huge.png", ".png", "none", 21, BlueA),
   File("grey.bmp", ".bmp", "none", 0,
        BuildImage(MessageFixture(<<72, 105>>, 48, "even", 0, "L"))),
   File("green.bmp", ".bmp", "none", 0,
        BuildImage(MessageFixture(<<71>>, 40, "odd", 1, "RGB"))),
   File("truncated.bmp", ".bmp", "red", 0, BlueA)}

\* glob("*.png") followed by glob("*.bmp"): distinct files, PNGs first
Directories ==
  {d \in SeqsUpTo(Catalog, MaxFiles) :
     \A i, j \in 1..Len(d) :
        i < j => (d[i].name # d[j].name /\ ~(d[i].ext = ".bmp" /\ d[j].ext = ".png"))}

InitScan ==
  /\ files \in Directories
  /\ fixture \in {[dir_ok |-> b] : b \in BOOLEAN}
  /\ impl \in Impls
  /\ pc = "start"
  /\ image = Null
  /\ channel = DEFAULT_CHANNEL
  /\ max_bytes = DEFAULT_MAX_MESSAGE_BYTES
  /\ printable_ratio = DefaultRatio
  /\ detector = Null
  /\ outcome = Null
  /\ view = Null
  /\ plane = 0
  /\ bit_seq = <<>>
  /\ stat_value = 0
  /\ plane_stats = <<>>
  /\ file_i = 0
  /\ chan_i = 0
  /\ file_result = Null
  /\ results = <<>>

ScanFrame == <<fixture, image, impl, channel, max_bytes, printable_ratio,
               detector, outcome, view, plane, bit_seq, stat_value, plane_stats, files>>

\* validate_directory and the globs; a directory that cannot be listed
\* yields no files
ScanStart ==
  /\ pc = "start"
  /\ IF fixture.dir_ok
     THEN pc' = "loop" /\ file_i' = 1
     ELSE pc' = "returned" /\ file_i' = file_i
  /\ UNCHANGED <<ScanFrame, chan_i, file_result, results>>

\* refined: the head of the loop body, up to the new file_result
OpenFile ==
  /\ pc = "loop" /\ impl = "refined" /\ file_i <= Len(files)
  /\ IF is_valid_image(files[file_i])
     THEN /\ file_result' = new_file_result(files[file_i])
          /\ chan_i' = 1
          /\ pc' = "channels"
          /\ file_i' = file_i
     ELSE /\ file_i' = file_i + 1
          /\ UNCHANGED <<pc, chan_i, file_result>>
  /\ UNCHANGED <<ScanFrame, results>>

\* refined: one iteration of "for channel in channels"
AnalyzeChannel ==
  /\ pc = "channels" /\ chan_i <= Len(Channels)
  /\ IF files[file_i].fail_at = Channels[chan_i]
     THEN /\ file_result' = Null
          /\ chan_i' = 0
          /\ file_i' = after_exception(file_i, Len(files))
          /\ results' = results_after_exception(results, file_result)
          /\ pc' = "loop"
     ELSE /\ file_result' = analyze_channel(file_result, files[file_i].image,
                                            Channels[chan_i])
          /\ chan_i' = chan_i + 1
          /\ UNCHANGED <<file_i, pc, results>>
  /\ UNCHANGED ScanFrame

\* refined: the overall statistics and results.append(file_result)
FinishFile ==
  /\ pc = "channels" /\ chan_i > Len(Channels)
  /\ results' = Append(results, record_overall(file_result))
  /\ file_result' = Null
  /\ chan_i' = 0
  /\ file_i' = file_i + 1
  /\ pc' = "loop"
  /\ UNCHANGED ScanFrame

\* early: one iteration of the loop
EarlyScanFile ==
  /\ pc = "loop" /\ impl = "early" /\ file_i <= Len(files)
  /\ LET r == early_scan_file(files[file_i])
     IN IF r = Null
        THEN /\ file_i' = after_exception(file_i, Len(files))
             /\ results' = results
        ELSE /\ file_i' = file_i + 1
             /\ results' = Append(results, r)
  /\ UNCHANGED <<ScanFrame, pc, chan_i, file_result>>

\* return results
ScanReturn ==
  /\ pc = "loop" /\ file_i > Len(files)
  /\ pc' = "returned"
  /\ UNCHANGED <<ScanFrame, file_i, chan_i, file_result, results>>

NextScan ==
  ScanStart \/ OpenFile \/ AnalyzeChannel \/ FinishFile \/ EarlyScanFile \/ ScanReturn

SpecScan == InitScan /\ [][NextScan]_vars

--------------------------------------------------------------------------
(* Properties of scan_directory, checked under SpecScan.                   *)

Order == <<"red", "green", "blue">>

\* what the refined detector reads from channel ch of file f, "" for None
Decoded(f, ch) ==
  message_or_empty(detect_message("refined", new_detector(f.image, ch),
                                  DEFAULT_MAX_MESSAGE_BYTES, DefaultRatio))

MinOf(S) == CHOOSE x \in S : \A y \in S : x <= y

\* record r of file f reports the first of the channels Order[1..k] that
\* decoded a message, and that channel's message
ReportsFirst(r, f, k) ==
  LET hits == {i \in 1..k : Decoded(f, Order[i]) # <<>>}
  IN IF hits = {}
     THEN r.channel_with_message = "" /\ r.message = <<>>
     ELSE /\ r.channel_with_message = Order[MinOf(hits)]
          /\ r.message = Decoded(f, Order[MinOf(hits)])

FileNamed(name) == CHOOSE f \in {files[i] : i \in 1..Len(files)} : f.name = name

\* C7: the channels of an image are analysed in the order red, green,
\* blue; channel_with_message and message are those of the first channel
\* in that order that decoded a message and are not overwritten by a later
\* channel; with messages in red and in blue the record reports red.
ChannelPriority ==
  /\ pc = "channels" =>
       /\ \A i \in 1..3 :
            ((Order[i] \o "_entropy_avg") \in DOMAIN file_result) <=> (i < chan_i)
       /\ ReportsFirst(file_result, files[file_i], chan_i - 1)
  /\ impl = "refined" =>
       \A j \in 1..Len(results) :
          ReportsFirst(results[j], FileNamed(results[j].file), 3)

\* a returned record reports red, and red's message, for a file whose blue
\* channel decodes another message
ChannelPriorityWitness ==
  /\ pc = "returned" /\ impl = "refined"
  /\ \E j \in 1..Len(results) :
       /\ results[j].channel_with_message = "red"
       /\ results[j].message = <<66>>
       /\ Decoded(FileNamed(results[j].file), "blue") = <<65>>

\* file f is analysed without a failure: it loads, no channel's analysis
\* raises, the refined scan accepts its size, and the early detector does
\* not raise on it
Survives(f) ==
  /\ f.fail_at = "none"
  /\ impl = "refined" => f.megapixels <= 20
  /\ impl = "early" =>
       detect_message("early", new_detector(f.image, "blue"),
                      DEFAULT_MAX_MESSAGE_BYTES, DefaultRatio).kind # "raise"

NamesOf(s) == [i \in 1..Len(s) |-> s[i].name]

\* C8: a failure while loading or analysing one image of a batch is caught
\* and that image skipped; every other image is still analysed, and the
\* list returned holds a record for each image analysed without failure.
FailureIsolation ==
  (pc = "returned" /\ fixture.dir_ok)
  => [j \in 1..Len(results) |-> results[j].file]
       = NamesOf(SelectSeq(files, Survives))

\* the scan returned the record of a file that follows one whose analysis
\* raised at the blue channel
FailureIsolationWitness ==
  /\ pc = "returned" /\ impl = "refined" /\ Len(files) = 2
  /\ files[1].fail_at = "blue"
  /\ Len(results) = 1 /\ results[1].file = files[2].name

\* x is the mean of the n values of sum total, as a fixed-point number
\* rounded down
IsMean(x, total, n) == n * x <= total /\ total < n * (x + 1)
\* x is the maximum of the values S
IsMax(x, S) == x \in S /\ \A y \in S : y <= x

\* C14: in every record the batch scan returns, the overall entropy_avg is
\* the arithmetic mean of the red, green and blue entropy_avg and the
\* overall chi2_max is the maximum of the red, green and blue chi2_max.
OverallAggregation ==
  (pc = "returned" /\ impl = "refined") =>
    \A j \in 1..Len(results) :
       LET r == results[j]
       IN /\ IsMean(r.entropy_avg,
                    r.red_entropy_avg + r.green_entropy_avg + r.blue_entropy_avg, 3)
          /\ IsMax(r.chi2_max, {r.red_chi2_max, r.green_chi2_max, r.blue_chi2_max})

\* a returned record whose channels differ in both statistics
OverallAggregationWitness ==
  /\ pc = "returned" /\ impl = "refined"
  /\ \E j \in 1..Len(results) :
       LET r == results[j]
       IN /\ Cardinality({r.red_entropy_avg, r.green_entropy_avg,
                          r.blue_entropy_avg}) = 3
          /\ r.chi2_max > r.red_chi2_max

\* the per-plane statistics of channel ch of file f, as the scanner's
\* detector computes them (the early scanner's detector scores the grey
\* image whatever the channel)
PlanesOf(f, ch) ==
  IF impl = "early" THEN early_analyze_bitplane(new_detector(f.image, ch))
  ELSE analyze_bitplane(new_detector(f.image, ch))

\* avg and max aggregate the 8 per-plane statistics st
Aggregates(avg, max, st) ==
  /\ IsMean(avg, SumSeq([k \in 1..8 |-> st[k - 1].entropy]), 8)
  /\ IsMax(max, {st[k].chi2 : k \in 0..7})

\* C15: for each channel of an image, the channel's entropy_avg is the
\* arithmetic mean of the entropies of its 8 bit planes and its chi2_max is
\* the maximum of the 8 per-plane chi-square values (the early scan has
\* the one pair of fields of its default detector).
ChannelAggregation ==
  pc = "returned" =>
    \A j \in 1..Len(results) :
       LET r == results[j]
           f == FileNamed(r.file)
       IN IF impl = "early"
          THEN Aggregates(r.entropy_avg, r.chi2_max, PlanesOf(f, DEFAULT_CHANNEL))
          ELSE /\ Aggregates(r.red_entropy_avg, r.red_chi2_max, PlanesOf(f, "red"))
               /\ Aggregates(r.green_entropy_avg, r.green_chi2_max,
                             PlanesOf(f, "green"))
               /\ Aggregates(r.blue_entropy_avg, r.blue_chi2_max, PlanesOf(f, "blue"))

\* a returned record of a channel whose planes differ in entropy and in
\* chi-square
ChannelAggregationWitness ==
  /\ pc = "returned"
  /\ \E j \in 1..Len(results) :
       LET st == PlanesOf(FileNamed(results[j].file), "blue")
       IN /\ Cardinality({st[k].entropy : k \in 0..7}) > 2
          /\ Cardinality({st[k].chi2 : k \in 0..7}) > 2
          /\ results[j].entropy_avg > 0

\* C18: in every record the batch scan returns, message_found is true if
\* and only if at least one of the three channels yielded a decoded
\* message; when it is true, message is that non-empty string and
\* channel_with_message names the channel it came from; when it is false,
\* message is empty and channel_with_message is empty.
MessageFlag ==
  (pc = "returned" /\ impl = "refined") =>
    \A j \in 1..Len(results) :
       LET r == results[j]
           f == FileNamed(r.file)
       IN /\ r.message_found \in BOOLEAN
          /\ r.message_found <=> (\E i \in 1..3 : Decoded(f, Order[i]) # <<>>)
          /\ r.message_found =>
               /\ r.message # <<>>
               /\ \E i \in 1..3 : /\ r.channel_with_message = Order[i]
                                  /\ r.message = Decoded(f, Order[i])
          /\ ~r.message_found =>
               r.message = <<>> /\ r.channel_with_message = ""

\* the scan returned a record with a message and one without
MessageFlagWitness ==
  /\ pc = "returned" /\ impl = "refined"
  /\ \E j, k \in 1..Len(results) :
       /\ results[j].message_found /\ results[j].message = <<65>>
       /\ results[j].channel_with_message = "blue"
       /\ ~results[k].message_found /\ results[k].message = <<>>

\* the fields of a record of the refined scan
RecordFields ==
  {"file", "message_found", "message", "channel_with_message",
   "red_entropy_avg", "red_chi2_max", "green_entropy_avg", "green_chi2_max",
   "blue_entropy_avg", "blue_chi2_max", "entropy_avg", "chi2_max"}

\* C20: batch records are all-or-nothing per image: at every point of
\* scan_directory every record in the result list carries all fields, an
\* image that fails at any channel contributes no record, and no image
\* contributes more than one record.
AllOrNothing ==
  impl = "refined" =>
    /\ \A j \in 1..Len(results) : DOMAIN results[j] = RecordFields
    /\ \A j \in 1..Len(results) : \A i \in 1..Len(files) :
         results[j].file = files[i].name =>
           /\ files[i].fail_at = "none"
           /\ i < file_i
    /\ \A j, k \in 1..Len(results) :
         results[j].file = results[k].file => j = k

\* the scan returned one full record although another file's analysis had
\* raised after its first channels were recorded
AllOrNothingWitness ==
  /\ pc = "returned" /\ impl = "refined" /\ Len(files) = 2
  /\ \E i \in 1..2 : files[i].fail_at = "blue" /\ is_valid_image(files[i])
  /\ Len(results) = 1 /\ DOMAIN results[1] = RecordFields
  /\ results[1].message_found

--------------------------------------------------------------------------
(* Specification SpecPlanes: analyze_bitplane of one detector, one plane   *)
(* of the loop at a time.                                                  *)

\* images of 0, 1, 6 and 40 pixels, colour and grey, of every cover, with
\* a message in any component
PlaneImages ==
  {BuildImage(MessageFixture(<<65>>, n, cover, e, mode)) :
     n \in {0, 1, 6, 40}, cover \in Covers, e \in 0..2, mode \in {"RGB", "L"}}

InitPlanes ==
  /\ image \in PlaneImages
  /\ channel \in {"red", "green", "blue"}
  /\ impl \in Impls
  /\ pc = "new"
  /\ fixture = Null
  /\ max_bytes = DEFAULT_MAX_MESSAGE_BYTES
  /\ printable_ratio = DefaultRatio
  /\ detector = Null
  /\ outcome = Null
  /\ view = Null
  /\ plane = 0
  /\ bit_seq = <<>>
  /\ stat_value = 0
  /\ plane_stats = <<>>
  /\ files = <<>>
  /\ file_i = 0
  /\ chan_i = 0
  /\ file_result = Null
  /\ results = <<>>

PlanesFrame == <<fixture, image, impl, channel, max_bytes, printable_ratio,
                 detector, outcome, view, stat_value, files, file_i, chan_i,
                 file_result, results>>

\* detector.analyze_bitplane(), up to the loop: stats = {}
AnalyzeBegin ==
  /\ pc = "ready"
  /\ plane_stats' = <<>>
  /\ plane' = 0
  /\ pc' = "planes"
  /\ UNCHANGED <<PlanesFrame, bit_seq>>

\* one iteration of "for plane in range(8)"
AnalyzePlane ==
  /\ pc = "planes" /\ plane < 8
  /\ bit_seq' = (IF impl = "early" THEN early_plane_bits(detector, plane)
                 ELSE plane_bits(detector, plane))
  /\ plane_stats' = (plane :> (IF impl = "early" THEN EarlyPlaneStats(bit_seq')
                                ELSE PlaneStats(bit_seq'))) @@ plane_stats
  /\ plane' = plane + 1
  /\ UNCHANGED <<PlanesFrame, pc>>

\* return stats
AnalyzeReturn ==
  /\ pc = "planes" /\ plane = 8
  /\ pc' = "analyzed"
  /\ UNCHANGED <<PlanesFrame, plane, bit_seq, plane_stats>>

NextPlanes == Construct \/ AnalyzeBegin \/ AnalyzePlane \/ AnalyzeReturn

SpecPlanes == InitPlanes /\ [][NextPlanes]_vars

--------------------------------------------------------------------------
(* Properties of analyze_bitplane, checked under SpecPlanes.               *)

\* the plane whose bits bit_seq holds
Scored == pc \in {"planes", "analyzed"} /\ plane >= 1
ScoredPlane == plane - 1

\* the value of pixel i (1-based, row-major) of the input image in the
\* channel the detector was constructed for
SelectedValue(i) ==
  LET px == image.data[((i - 1) \div image.width) + 1][((i - 1) % image.width) + 1]
  IN IF image.mode = "L" THEN px[1]
     ELSE CASE channel = "red" -> px[1] [] channel = "green" -> px[2]
            [] OTHER -> px[3]

\* C11: for every pixel i with selected-channel value v_i and every plane
\* k in 0..7, the bit sequence analyze_bitplane scores for plane k has one
\* entry per pixel in row-major order, each entry is 0 or 1, and entry i
\* is (v_i >> k) & 1; for plane 0 that is v_i & 1.
PlaneExtraction ==
  Scored =>
    /\ Len(bit_seq) = image.height * image.width
    /\ \A i \in 1..Len(bit_seq) :
         /\ bit_seq[i] \in {0, 1}
         /\ bit_seq[i] = (SelectedValue(i) \div Pow2(ScoredPlane)) % 2
         /\ ScoredPlane = 0 => bit_seq[i] = SelectedValue(i) % 2

\* C12: for one detector, the plane-0 bit sequence fed to the message
\* decoder (extract_lsb) and the plane-0 bit sequence analyze_bitplane
\* scores agree bit for bit.
PlaneZeroAgrees ==
  (Scored /\ ScoredPlane = 0) => bit_seq = flatten(extract_lsb(detector))

--------------------------------------------------------------------------
(* Specification SpecStats: compute_entropy and chi_square on one bit      *)
(* sequence.                                                               *)

\* every bit sequence up to this length
MaxBits == 6
\* and every run of up to this many zeros followed by up to as many ones
MaxRun == 20

BitSeqs ==
  SeqsUpTo({0, 1}, MaxBits)
  \cup {[i \in 1..(z + o) |-> IF i <= z THEN 0 ELSE 1] : z \in 0..MaxRun, o \in 0..MaxRun}

InitStats ==
  /\ bit_seq \in BitSeqs
  /\ impl \in Impls
  /\ pc = "bits"
  /\ fixture = Null
  /\ image = Null
  /\ channel = DEFAULT_CHANNEL
  /\ max_bytes = DEFAULT_MAX_MESSAGE_BYTES
  /\ printable_ratio = DefaultRatio
  /\ detector = Null
  /\ outcome = Null
  /\ view = Null
  /\ plane = 0
  /\ stat_value = 0
  /\ plane_stats = <<>>
  /\ files = <<>>
  /\ file_i = 0
  /\ chan_i = 0
  /\ file_result = Null
  /\ results = <<>>

StatsFrame == <<fixture, image, impl, channel, max_bytes, printable_ratio,
                detector, outcome, view, plane, bit_seq, plane_stats, files,
                file_i, chan_i, file_result, results>>

\* LSBDetector.compute_entropy(bits)
ComputeEntropy ==
  /\ pc = "bits"
  /\ stat_value' = (IF impl = "early" THEN early_compute_entropy(bit_seq)
                    ELSE compute_entropy(bit_seq))
  /\ pc' = "entropy"
  /\ UNCHANGED StatsFrame

\* LSBDetector.chi_square(bits)
ChiSquare ==
  /\ pc = "bits"
  /\ stat_value' = (IF impl = "early" THEN early_chi_square(bit_seq)
                    ELSE chi_square(bit_seq))
  /\ pc' = "chi2"
  /\ UNCHANGED StatsFrame

NextStats == ComputeEntropy \/ ChiSquare

SpecStats == InitStats /\ [][NextStats]_vars

--------------------------------------------------------------------------
(* Properties of the statistics, checked under SpecStats.  A statistic x   *)
(* stands for the real number x / Scale, rounded down.                     *)

Zeros == Cardinality({i \in 1..Len(bit_seq) : bit_seq[i] = 0})
Ones == Cardinality({i \in 1..Len(bit_seq) : bit_seq[i] = 1})
Balanced == Zeros = Ones

\* C16: chi_square(bits) >= 0 for every bit sequence; it is 0 for the
\* empty sequence and for a perfectly balanced one; in general it is
\* (obs0 - exp)^2 / exp + (obs1 - exp)^2 / exp with exp = n / 2, which is
\* (obs0 - obs1)^2 / n.
ChiSquareProperties ==
  pc = "chi2" =>
    LET n == Len(bit_seq)
        d == Zeros - Ones
    IN /\ stat_value >= 0
       /\ n = 0 => stat_value = 0
       /\ Balanced => stat_value = 0
       /\ n > 0 => /\ stat_value * n <= Scale * d * d
                   /\ Scale * d * d < (stat_value + 2) * n

\* chi_square was computed on an unbalanced sequence of both symbols
ChiSquareWitness ==
  pc = "chi2" /\ Zeros > Ones /\ Ones > 0 /\ stat_value > Scale

\* C17: 0 <= compute_entropy(bits) <= 1 for every bit sequence; the empty
\* sequence gives 0; an all-zeros or all-ones sequence of length n > 0
\* gives 0; a sequence of exactly half 0s and half 1s gives 1.
EntropyProperties ==
  pc = "entropy" =>
    /\ 0 <= stat_value /\ stat_value <= Scale
    /\ Len(bit_seq) = 0 => stat_value = 0
    /\ (Len(bit_seq) > 0 /\ (Zeros = 0 \/ Ones = 0)) => stat_value = 0
    /\ (Len(bit_seq) > 0 /\ Balanced) => stat_value = Scale

\* compute_entropy was computed on an unbalanced sequence of both symbols
\* and lies strictly between 0 and 1
EntropyWitness ==
  /\ pc = "entropy" /\ Zeros > 0 /\ Ones > Zeros
  /\ 0 < stat_value /\ stat_value < Scale

====
